---- MODULE Spec2Model ----
(***************************************************************************)
(* Ring / blockwise / striped attention of bpt.py as a state machine.      *)
(*                                                                         *)
(* Tensors are abstracted to their index structure: a key/value shard is   *)
(* the id of the block it carries, an accumulator is the multiset of       *)
(* (query row, key position) pairs whose score was folded in without the   *)
(* causal mask value, a gradient shard is the multiset of (key block,      *)
(* query rank) contributions added to it.  Batch, head and head_dim axes   *)
(* are untouched by every index computation of the source and are left     *)
(* out, except in the shapes of the bias and of the gradient tiles.  All   *)
(* positions and tile indices are 0-based as in the source; token          *)
(* sequences are TLA+ sequences (1-based).  blockwise_ffn is modelled on   *)
(* the sequence positions its scan steps are given.                        *)
(***************************************************************************)
EXTENDS Integers, Sequences, FiniteSets, TLC

VARIABLES cfg, pc, tokens, permuted, restored,
          idx, computed, heldKV, acc, fold, biasUse,
          output, res, dq, dk, qdone,
          bias, err, hopLog, bwdTile, first, ffnIn, ffnOut

vars == <<cfg, pc, tokens, permuted, restored,
          idx, computed, heldKV, acc, fold, biasUse,
          output, res, dq, dk, qdone,
          bias, err, hopLog, bwdTile, first, ffnIn, ffnOut>>

\* ---------------------------------------------------------------- bounds
MaxN == 6   \* longest token sequence given to permute_tokens
MaxP == 3   \* largest ring (axis_size)
MaxL == 4   \* longest local sequence (q_len, kv_len, block_size)

Min(a, b) == IF a < b THEN a ELSE b
Max(a, b) == IF a > b THEN a ELSE b

\* ------------------------------------------------------ token permutation
\* einops "b (n d) -> b (d n)": output index p = dd*(N/d) + nn is read from
\* input index nn*d + dd.  0-based index of the source element for output p.
StripedSource(p, N, d) == (p % (N \div d)) * d + (p \div (N \div d))

\* einops "b (d n) x -> b (n d) x": output index q = nn*d + dd is read from
\* input index dd*(N/d) + nn.
StripedDest(q, N, d) == (q % d) * (N \div d) + (q \div d)

\* permute_tokens with the pattern of unpermute_outputs ("b (d n) -> b (n d)")
permute_tokens_swapped(attention_type, toks, num_devices) ==
    IF attention_type = "striped"
    THEN [p \in 1..Len(toks) |->
             toks[StripedDest(p - 1, Len(toks), num_devices) + 1]]
    ELSE toks

permute_tokens(attention_type, toks, num_devices) ==
    IF attention_type = "striped"
    THEN [p \in 1..Len(toks) |->
             toks[StripedSource(p - 1, Len(toks), num_devices) + 1]]
    ELSE toks

\* unpermute_outputs that applies the forward pattern a second time
unpermute_outputs_forward(attention_type, outs, num_devices) ==
    IF attention_type = "striped"
    THEN [q \in 1..Len(outs) |->
             outs[StripedSource(q - 1, Len(outs), num_devices) + 1]]
    ELSE outs

unpermute_outputs(attention_type, outs, num_devices) ==
    IF attention_type = "striped"
    THEN [q \in 1..Len(outs) |->
             outs[StripedDest(q - 1, Len(outs), num_devices) + 1]]
    ELSE outs

\* einops rejects a composite axis whose length is not a multiple of d
RearrangeOK(N, d) == N % d = 0

\* ------------------------------------------------------------ tile algebra
\* lax.dynamic_slice clamps a start index so that the slice stays in bounds
DynamicSliceStart(start, dim, size) == Max(0, Min(start, dim - size))

\* a split that drops the remainder instead of failing
ReshapeOK_truncating(len, chunk) == TRUE

\* x.reshape((batch, n, chunk, ...)) with n = len // chunk succeeds only when
\* n * chunk = len
ReshapeOK(len, chunk) == (len \div chunk) * chunk = len

\* the asserts of the striped branch of _chunk_attention_bias
StripedAssertOK(c) ==
    c.causal_layout = "striped" =>
        /\ c.block_size % c.query_chunk_size = 0
        /\ c.block_size % c.key_chunk_size = 0

\* skip rule that compares the tiles' first positions (q_lo <= k_lo)
skip_upper_half_lo(c, q_chunk_idx_start, k_chunk_idx_start, q_chunk_idx, k_chunk_idx) ==
    IF c.causal_layout = "none" THEN FALSE
    ELSE LET q_lo0 == (q_chunk_idx_start + q_chunk_idx) * c.query_chunk_size
             k_lo0 == (k_chunk_idx_start + k_chunk_idx) * c.key_chunk_size
             q_lo  == IF c.causal_layout = "striped" THEN q_lo0 % c.block_size ELSE q_lo0
             k_lo  == IF c.causal_layout = "striped" THEN k_lo0 % c.block_size ELSE k_lo0
         IN  q_lo <= k_lo

\* skip rule that takes the striped layout's positions as they are, not
\* modulo block_size
skip_upper_half_global(c, q_chunk_idx_start, k_chunk_idx_start, q_chunk_idx, k_chunk_idx) ==
    IF c.causal_layout = "none" THEN FALSE
    ELSE LET q_lo == (q_chunk_idx_start + q_chunk_idx) * c.query_chunk_size
             k_lo == (k_chunk_idx_start + k_chunk_idx) * c.key_chunk_size
             q_hi == q_lo + c.query_chunk_size
         IN  q_hi <= k_lo

\* skip_block of _blockwise_attention_fwd.skip_upper_half
skip_upper_half(c, q_chunk_idx_start, k_chunk_idx_start, q_chunk_idx, k_chunk_idx) ==
    IF c.causal_layout = "none" THEN FALSE
    ELSE LET q_lo0 == (q_chunk_idx_start + q_chunk_idx) * c.query_chunk_size
             k_lo0 == (k_chunk_idx_start + k_chunk_idx) * c.key_chunk_size
             q_lo  == IF c.causal_layout = "striped" THEN q_lo0 % c.block_size ELSE q_lo0
             k_lo  == IF c.causal_layout = "striped" THEN k_lo0 % c.block_size ELSE k_lo0
             q_hi  == q_lo + c.query_chunk_size
         IN  q_hi <= k_lo

\* a backward skip rule that also skips the pairs whose tiles start together
bwd_skip_upper_half_lo(c, q_chunk_idx_start, k_chunk_idx_start, q_chunk_idx, k_chunk_idx) ==
    skip_upper_half_lo(c, q_chunk_idx_start, k_chunk_idx_start, q_chunk_idx, k_chunk_idx)

\* skip_block of _blockwise_attention_bwd.skip_upper_half
bwd_skip_upper_half(c, q_chunk_idx_start, k_chunk_idx_start, q_chunk_idx, k_chunk_idx) ==
    IF c.causal_layout = "none" THEN FALSE
    ELSE LET q_lo == IF c.causal_layout = "striped"
                     THEN ((q_chunk_idx_start + q_chunk_idx) * c.query_chunk_size) % c.block_size
                     ELSE (q_chunk_idx_start + q_chunk_idx) * c.query_chunk_size
             k_lo == IF c.causal_layout = "striped"
                     THEN ((k_chunk_idx_start + k_chunk_idx) * c.key_chunk_size) % c.block_size
                     ELSE (k_chunk_idx_start + k_chunk_idx) * c.key_chunk_size
             q_hi == q_lo + c.query_chunk_size
         IN  q_hi <= k_lo

\* skip_block of blockwise_attn.skip_upper_half
attn_skip_upper_half(causal, query_chunk_idx, key_chunk_idx) ==
    IF causal THEN query_chunk_idx < key_chunk_idx ELSE FALSE

\* causal mask that also masks the diagonal (query_idx <= key_idx)
causal_mask_value_diag(c, query_chunk_idx, key_chunk_idx, a, b) ==
    LET query_offset == query_chunk_idx * c.query_chunk_size
        key_offset   == key_chunk_idx * c.key_chunk_size
    IN  CASE c.causal_layout = "normal" ->
                 a + (query_offset - key_offset) <= b
          [] c.causal_layout = "striped" ->
                 LET query_block_idx == query_offset \div c.block_size
                     key_block_idx   == key_offset \div c.block_size
                     query_offset_in_block == query_offset % c.block_size
                     key_offset_in_block   == key_offset % c.block_size
                     exclude_diagonal == IF query_block_idx < key_block_idx THEN 1 ELSE 0
                     offset == query_offset_in_block - key_offset_in_block - exclude_diagonal
                 IN  a + offset <= b
          [] OTHER -> FALSE

\* striped mask without the exclude_diagonal shift
causal_mask_value_no_exclude(c, query_chunk_idx, key_chunk_idx, a, b) ==
    LET query_offset == query_chunk_idx * c.query_chunk_size
        key_offset   == key_chunk_idx * c.key_chunk_size
    IN  CASE c.causal_layout = "normal" ->
                 a + (query_offset - key_offset) < b
          [] c.causal_layout = "striped" ->
                 LET query_offset_in_block == query_offset % c.block_size
                     key_offset_in_block   == key_offset % c.block_size
                     offset == query_offset_in_block - key_offset_in_block
                 IN  a + offset < b
          [] OTHER -> FALSE

\* striped mask whose exclude_diagonal also holds within a block
\* (query_block_idx <= key_block_idx)
causal_mask_value_exclude_own(c, query_chunk_idx, key_chunk_idx, a, b) ==
    LET query_offset == query_chunk_idx * c.query_chunk_size
        key_offset   == key_chunk_idx * c.key_chunk_size
    IN  CASE c.causal_layout = "normal" ->
                 a + (query_offset - key_offset) < b
          [] c.causal_layout = "striped" ->
                 LET query_block_idx == query_offset \div c.block_size
                     key_block_idx   == key_offset \div c.block_size
                     query_offset_in_block == query_offset % c.block_size
                     key_offset_in_block   == key_offset % c.block_size
                     exclude_diagonal == IF query_block_idx <= key_block_idx THEN 1 ELSE 0
                     offset == query_offset_in_block - key_offset_in_block - exclude_diagonal
                 IN  a + offset < b
          [] OTHER -> FALSE

\* _chunk_attention_bias, causal part: TRUE when entry (a, b) of the tile
\* (a = row in the query tile, b = column in the key tile) receives the mask
\* value finfo(dtype).min
causal_mask_value(c, query_chunk_idx, key_chunk_idx, a, b) ==
    LET query_offset == query_chunk_idx * c.query_chunk_size
        key_offset   == key_chunk_idx * c.key_chunk_size
    IN  CASE c.causal_layout = "normal" ->
                 a + (query_offset - key_offset) < b
          [] c.causal_layout = "striped" ->
                 LET query_block_idx == query_offset \div c.block_size
                     key_block_idx   == key_offset \div c.block_size
                     query_offset_in_block == query_offset % c.block_size
                     key_offset_in_block   == key_offset % c.block_size
                     exclude_diagonal == IF query_block_idx < key_block_idx THEN 1 ELSE 0
                     offset == query_offset_in_block - key_offset_in_block - exclude_diagonal
                 IN  a + offset < b
          [] OTHER -> FALSE

\* _chunk_attention_bias, user-bias part: the start indices (query axis, key
\* axis) at which lax.dynamic_slice reads the bias it is given; the bias has
\* shape (.., bias_q, bias_k) and the slice (.., min(bias_q, qcs), min(bias_k, kcs))
chunk_bias_start(c, bias_q, bias_k, query_chunk_idx, key_chunk_idx) ==
    LET query_offset == query_chunk_idx * c.query_chunk_size
        key_offset   == key_chunk_idx * c.key_chunk_size
    IN  <<DynamicSliceStart(query_offset, bias_q, Min(bias_q, c.query_chunk_size)),
          DynamicSliceStart(key_offset, bias_k, Min(bias_k, c.key_chunk_size))>>

\* -------------------------------------------------------------- bias shape
Batch == 2      \* batch size of the calls
NumHeads == 2   \* number of heads of the calls

\* bias=None, and a bias given with the shape (a tuple of dims)
NoBias == [given |-> FALSE, shape |-> <<>>]
GivenBias(shape) == [given |-> TRUE, shape |-> shape]

\* (batch, num_heads, q_len, kv_len)
BroadcastShape(c) == <<Batch, NumHeads, c.q_len, c.kv_len>>

\* for bias_dim, broadcast_dim in zip(bias.shape, (batch, num_heads, q_len, kv_len)):
\*     assert bias_dim == 1 or bias_dim == broadcast_dim
\* zip stops at the shorter of the two tuples
BiasAssertOK(b, target) ==
    b.given =>
        \A k \in 1 .. Min(Len(b.shape), Len(target)) :
            b.shape[k] = 1 \/ b.shape[k] = target[k]

\* lax.dynamic_slice(bias, start_indices=(0, 0, query_offset, key_offset),
\*     slice_sizes=(*bias.shape[:2], min(bias.shape[-2], ..), min(bias.shape[-1], ..)))
\* bias.shape[-2] needs two dims and the four start indices an operand of
\* rank four; raised while the scan body is staged
ChunkBiasSliceOK(b) ==
    LET start_indices == <<0, 0, "query_offset", "key_offset">>
    IN  b.given => Len(b.shape) = Len(start_indices)

\* the first failure met while a call is set up and its scan body is staged,
\* in source order: the reshapes into tiles, the bias shape loop, then
\* _chunk_attention_bias (its dynamic_slice, then the striped asserts)
EntryError(c, b) ==
    IF ~(ReshapeOK(c.q_len, c.query_chunk_size) /\ ReshapeOK(c.kv_len, c.key_chunk_size))
    THEN "reshape"
    ELSE IF ~BiasAssertOK(b, BroadcastShape(c)) THEN "bias_shape"
    ELSE IF ~ChunkBiasSliceOK(b) THEN "bias_slice"
    ELSE IF ~StripedAssertOK(c) THEN "striped_assert"
    ELSE "none"

\* ------------------------------------------------------------------- ring
Ranks(c) == 0 .. (c.axis_size - 1)

\* bias = lax.dynamic_slice_in_dim(bias, k_block_idx * kv_len, kv_len, axis=-1)
RingBiasSlice(c, b) ==
    IF b.given THEN GivenBias([b.shape EXCEPT ![Len(b.shape)] = c.kv_len]) ELSE b

\* a ppermute whose perm sends every rank to itself
ppermute_identity(x, axis_size) == x

\* a ppermute whose perm stops short of the wrap-around pair
\* ([(i, i + 1) for i in range(axis_size - 1)]): rank 0 receives no shard
ppermute_no_wrap(x, axis_size) ==
    [r \in 0 .. (axis_size - 1) |-> IF r = 0 THEN -1 ELSE x[r - 1]]

\* perm of lax.ppermute: [(i, (i + 1) % axis_size) for i in range(axis_size)];
\* the value rank r receives is the one rank Sender(r) held
ppermute(x, axis_size) ==
    [r \in 0 .. (axis_size - 1) |->
        x[CHOOSE i \in 0 .. (axis_size - 1) : (i + 1) % axis_size = r]]

\* a collective that goes ahead as soon as one rank has reached it
AllReached_any(done, axis_size) == done # {}

\* lax.ppermute is a collective over the whole axis inside the traced hop
\* body: it delivers once every rank of the axis has reached it, i.e. has
\* finished the _blockwise_attention_fwd/_bwd call that precedes it
AllReached(done, axis_size) == done = 0 .. (axis_size - 1)

\* a block index that follows the ring the other way round
k_block_idx_forward(r, i, axis_size) == (r + i) % axis_size

\* k_block_idx = (lax.axis_index(axis_name) - idx) % axis_size
k_block_idx(r, i, axis_size) == (r - i) % axis_size

q_chunk_idx_start(c, r) == r * (c.q_len \div c.query_chunk_size)
k_chunk_idx_start(c, r, i) ==
    k_block_idx(r, i, c.axis_size) * (c.q_len \div c.key_chunk_size)

\* One tile entry of one _blockwise_attention_fwd call: row i of the local
\* query shard against column kl of the key shard in hand.  TRUE when the
\* tile holding (i, kl) is not skipped and the entry gets no mask value.
TileEntryUnmasked(c, q_start, k_start, i, kl) ==
    LET q_chunk_idx == i \div c.query_chunk_size
        k_chunk_idx == kl \div c.key_chunk_size
    IN  /\ ~skip_upper_half(c, q_start, k_start, q_chunk_idx, k_chunk_idx)
        /\ ~causal_mask_value(c, q_start + q_chunk_idx, k_start + k_chunk_idx,
                              i % c.query_chunk_size, kl % c.key_chunk_size)

\* _blockwise_attention_fwd on one rank: every (query tile, key tile) pair of
\* the local query shard and the key shard in hand (block blk) is visited
\* once; a pair that is not skipped is folded into the carry.
\*   a[<<i, j>>]      times key position j (= blk*kv_len + kl) was folded into
\*                    row i without the mask value
\*   f[<<qt, b, kt>>] times tile kt of block b was folded into query tile qt
_blockwise_attention_fwd(c, a, f, q_start, k_start, blk) ==
    [a |-> [ij \in DOMAIN a |->
              a[ij] + IF /\ ij[2] \div c.kv_len = blk
                         /\ TileEntryUnmasked(c, q_start, k_start, ij[1], ij[2] % c.kv_len)
                      THEN 1 ELSE 0],
     f |-> [t \in DOMAIN f |->
              f[t] + IF /\ t[2] = blk
                        /\ ~skip_upper_half(c, q_start, k_start, t[1], t[3])
                     THEN 1 ELSE 0]]

\* the bias reads of one _blockwise_attention_fwd/_bwd call in the ring: the
\* caller's bias (.., bias_q, axis_size*kv_len) is first cut by
\* lax.dynamic_slice_in_dim to kv_len columns from kb*kv_len, then each
\* non-skipped tile reads its chunk of that slice.  ks is the column of the
\* caller's bias that lands on column 0 of the key tile, qs the row that lands
\* on row 0 of the query tile.
RingBiasReads(c, pass, r, i) ==
    LET kb     == k_block_idx(r, i, c.axis_size)
        slice0 == DynamicSliceStart(kb * c.kv_len, c.axis_size * c.kv_len, c.kv_len)
        q_start == q_chunk_idx_start(c, r)
        k_start == k_chunk_idx_start(c, r, i)
    IN  { [pass |-> pass, qt |-> qt, kb |-> kb, kt |-> kt,
           qs |-> chunk_bias_start(c, c.bias_q, c.kv_len, q_start + qt, k_start + kt)[1],
           ks |-> slice0 + chunk_bias_start(c, c.bias_q, c.kv_len, q_start + qt, k_start + kt)[2]] :
          <<qt, kt>> \in { t \in (0 .. (c.q_len \div c.query_chunk_size) - 1)
                                  \X (0 .. (c.kv_len \div c.key_chunk_size) - 1) :
                           IF pass = "bwd"
                           THEN ~bwd_skip_upper_half(c, q_start, k_start, t[1], t[2])
                           ELSE ~skip_upper_half(c, q_start, k_start, t[1], t[2]) } }

\* number of (query tile, key tile) pairs of one backward call the skip rule
\* passes
ComputedTiles(c, q_start, k_start) ==
    Cardinality({ t \in (0 .. (c.q_len \div c.query_chunk_size) - 1)
                         \X (0 .. (c.kv_len \div c.key_chunk_size) - 1) :
                  ~bwd_skip_upper_half(c, q_start, k_start, t[1], t[2]) })

NumTiles(c) == (c.q_len \div c.query_chunk_size) * (c.kv_len \div c.key_chunk_size)

\* a gradient carry counts the calls that added to it and the tiles they
\* added: computed ones and exact-zero ones (skipped pairs)
ZeroGrad == [n |-> 0, computed |-> 0, zero |-> 0]
AddGrad(g, nc, nz) ==
    [n |-> g.n + 1, computed |-> g.computed + nc, zero |-> g.zero + nz]

\* _blockwise_attention_bwd on one rank: dq of the local query shard takes the
\* computed tiles (a skipped pair returns the carry unchanged), the dk/dv shard
\* in hand takes one tile per pair, zero for a skipped pair.
_blockwise_attention_bwd(c, dqr, dkr, r, q_start, k_start, blk) ==
    LET nc == ComputedTiles(c, q_start, k_start)
    IN  [dq |-> [dqr EXCEPT ![blk] = AddGrad(@, nc, 0)],
         dk |-> [dkr EXCEPT ![<<blk, r>>] = AddGrad(@, nc, NumTiles(c) - nc)]]

\* what one backward call did with one (query tile, block, key tile) pair
NoVisit == [visits |-> 0, dq_add |-> 0, computed |-> 0, zero |-> 0, shapes |-> {}]

\* the lax.cond of _blockwise_attention_bwd.skip_upper_half on every pair of
\* one call on block blk: a skipped pair returns the dq carry as it is and a
\* jnp.zeros((batch, key_chunk_size, num_heads, dim_per_head)) tile for dk and
\* dv, any other pair adds to dq_chunk and returns the einsum '..->bkhd' tiles
\* (k the key_chunk_size keys of k_chunk); dim_per_head is left out of shapes
bwd_tiles(c, bt, q_start, k_start, blk) ==
    [t \in DOMAIN bt |->
        IF t[2] # blk THEN bt[t]
        ELSE IF bwd_skip_upper_half(c, q_start, k_start, t[1], t[3])
             THEN [bt[t] EXCEPT !.visits = @ + 1, !.zero = @ + 1,
                                !.shapes = @ \cup {<<Batch, c.key_chunk_size, NumHeads>>}]
             ELSE [bt[t] EXCEPT !.visits = @ + 1, !.dq_add = @ + 1, !.computed = @ + 1,
                                !.shapes = @ \cup {<<Batch, c.key_chunk_size, NumHeads>>}]]

\* the first key tile folded into the carry of a query row
NoFirst == [set |-> FALSE, hop |-> 0, blk |-> 0, kt |-> 0, unmasked |-> 0]

\* lax.scan(skip_upper_half, init=carry, xs=(k, v, arange(num_kv))) of one
\* _blockwise_attention_fwd call, seen from the query rows: a row with nothing
\* folded so far takes the least non-skipped key tile of the call as its
\* first; unmasked counts the keys of that tile without the mask value
first_fold(c, fr, hop, q_start, k_start, blk) ==
    [i \in DOMAIN fr |->
        LET qt == i \div c.query_chunk_size
            S  == { kt \in 0 .. (c.kv_len \div c.key_chunk_size) - 1 :
                    ~skip_upper_half(c, q_start, k_start, qt, kt) }
            k0 == CHOOSE k \in S : \A m \in S : k <= m
        IN  IF fr[i].set \/ S = {} THEN fr[i]
            ELSE [set |-> TRUE, hop |-> hop, blk |-> blk, kt |-> k0,
                  unmasked |-> Cardinality({ b \in 0 .. c.key_chunk_size - 1 :
                      ~causal_mask_value(c, q_start + qt, k_start + k0,
                                         i % c.query_chunk_size, b) })]]

\* the same for one scan_attention step of blockwise_attn, which starts query
\* tile query_chunk_idx from init_carry
attn_first_fold(c, fr, query_chunk_idx) ==
    [i \in DOMAIN fr |->
        LET S  == { kt \in 0 .. (c.kv_len \div c.key_chunk_size) - 1 :
                    ~attn_skip_upper_half(c.causal, query_chunk_idx, kt) }
            k0 == CHOOSE k \in S : \A m \in S : k <= m
        IN  IF i \div c.query_chunk_size # query_chunk_idx \/ S = {} THEN fr[i]
            ELSE [set |-> TRUE, hop |-> 0, blk |-> 0, kt |-> k0,
                  unmasked |-> Cardinality({ b \in 0 .. c.key_chunk_size - 1 :
                      ~causal_mask_value(c, query_chunk_idx, k0,
                                         i % c.query_chunk_size, b) })]]

\* the hops a rank has computed, in the order it computed them
LogHop(log, pass, hop, blk) == Append(log, [pass |-> pass, hop |-> hop, blk |-> blk])

\* ----------------------------------------------------------- blockwise_ffn
\* rearrange(inputs, 'b (c n) d -> b c n d', c=chunk_size): the sequence axis
\* of length N is split with c (of size chunk_size) as the outer and n (of
\* size N/chunk_size) as the inner axis; entry [c][n] is sequence position
\* c*(N/chunk_size) + n
ffn_rearrange(N, chunk_size) ==
    [c \in 0 .. chunk_size - 1 |->
        [n \in 0 .. (N \div chunk_size) - 1 |-> c * (N \div chunk_size) + n]]

\* nn.scan(.., in_axes=scan_axis) with scan_axis = inputs.ndim - 2, the n
\* axis: step n_idx is given x[:, :, n_idx, :], one entry per c
ffn_scan_input(x, chunk_size, n_idx) == [k \in 1 .. chunk_size |-> x[k - 1][n_idx]]

\* scan_ffn(remat_ffn, carry, hidden_states): the carry goes through as it
\* came, outputs has at each place the ffn result of the position at that
\* place of hidden_states (a result is named by its input position)
scan_ffn(carry, hidden_states) == [carry |-> carry, outputs |-> hidden_states]

\* an output that puts the steps' outputs one after the other
\* ('b n c d -> b (n c) d')
ffn_output_concat(ys, N, chunk_size) ==
    [p \in 1 .. N |-> ys[((p - 1) \div chunk_size) + 1].outputs[((p - 1) % chunk_size) + 1]]

\* out_axes=scan_axis stacks the steps' outputs on the n axis; then
\* rearrange(output, 'b c n d -> b (c n) d'): place c*(N/chunk_size) + n of
\* the result is entry c of the output of step n
ffn_output(ys, N, chunk_size) ==
    [p \in 1 .. N |->
        ys[((p - 1) % (N \div chunk_size)) + 1].outputs[((p - 1) \div (N \div chunk_size)) + 1]]

\* ------------------------------------------------------------------ inputs
Layouts =={"none", "normal", "striped"}

\* permute_tokens / unpermute_outputs on a token sequence of length q_len
PermConfigs ==
    { [prog |-> "perm", attention_type |-> t, axis_size |-> d, q_len |-> n,
       kv_len |-> n, query_chunk_size |-> 1, key_chunk_size |-> 1,
       causal_layout |-> "none", causal |-> FALSE, block_size |-> n, bias_q |-> 1] :
      t \in Layouts, d \in 1..MaxP, n \in 1..MaxN }

\* blockwise_attn(query, key, value, ..., causal, query_chunk_size, key_chunk_size)
AttnConfigs ==
    { [prog |-> "attn", attention_type |-> "none", axis_size |-> 1, q_len |-> ql,
       kv_len |-> kl, query_chunk_size |-> qc, key_chunk_size |-> kc,
       causal_layout |-> IF ca THEN "normal" ELSE "none", causal |-> ca,
       block_size |-> 0, bias_q |-> 1] :
      ql \in 1..MaxL, kl \in 1..MaxL, qc \in 1..MaxL, kc \in 1..MaxL, ca \in BOOLEAN }

\* ring_attention inside shard_map: every rank holds q_len = kv_len local
\* positions; blockwise_kwargs carries the chunk sizes, the layout and
\* block_size; the bias has 1 or q_len query rows
RingConfigs ==
    { [prog |-> "ring", attention_type |-> x[1], axis_size |-> x[2], q_len |-> x[3],
       kv_len |-> x[3], query_chunk_size |-> x[4], key_chunk_size |-> x[5],
       causal_layout |-> x[1], causal |-> x[1] # "none", block_size |-> x[6],
       bias_q |-> x[7]] :
      x \in { y \in Layouts \X (1..MaxP) \X (1..MaxL) \X (1..MaxL) \X (1..MaxL)
                     \X (1..MaxL) \X (1..MaxL) :
              /\ y[1] # "striped" => y[6] = y[3]
              /\ y[7] \in {1, y[3]} } }

\* blockwise_ffn(remat_ffn, inputs, chunk_size, deterministic) on inputs of
\* length q_len with chunk_size = query_chunk_size
FfnConfigs ==
    { [prog |-> "ffn", attention_type |-> "none", axis_size |-> 1, q_len |-> n,
       kv_len |-> n, query_chunk_size |-> c, key_chunk_size |-> c,
       causal_layout |-> "none", causal |-> FALSE, block_size |-> n, bias_q |-> 1] :
      n \in 1..MaxN, c \in 1..MaxN }

Configs == PermConfigs \cup AttnConfigs \cup RingConfigs \cup FfnConfigs

\* the bias arguments given to blockwise_attn: None, and for the non-causal
\* calls with one key chunk every shape of up to four dims, each dim 1, the
\* dim of (batch, num_heads, q_len, kv_len) at its place, or one more
BiasShapes(c) ==
    IF c.causal \/ c.key_chunk_size # c.kv_len THEN {NoBias}
    ELSE {NoBias} \cup
         { GivenBias(s) :
             s \in { t \in UNION { [1 .. n -> 1 .. MaxL + 1] :
                                   n \in 0 .. Len(BroadcastShape(c)) } :
                     \A k \in DOMAIN t :
                         t[k] \in {1, BroadcastShape(c)[k], BroadcastShape(c)[k] + 1} } }

AccDomain(c) == (0 .. c.q_len - 1) \X (0 .. c.axis_size * c.kv_len - 1)
FoldDomain(c) == (0 .. (c.q_len \div c.query_chunk_size) - 1)
                 \X (0 .. c.axis_size - 1)
                 \X (0 .. (c.kv_len \div c.key_chunk_size) - 1)

Init ==
    /\ cfg \in Configs
    /\ pc = cfg.prog
    /\ tokens \in IF cfg.prog = "perm" THEN [1 .. cfg.q_len -> {0, 1}] ELSE {<<>>}
    /\ permuted = <<>>
    /\ restored = <<>>
    /\ idx = 0
    /\ computed = {}
    /\ qdone = 0
    /\ heldKV = IF cfg.prog = "ring" THEN [r \in Ranks(cfg) |-> r] ELSE <<>>
    /\ acc = IF cfg.prog \in {"perm", "ffn"} THEN <<>>
             ELSE [r \in Ranks(cfg) |-> [ij \in AccDomain(cfg) |-> 0]]
    /\ fold = IF cfg.prog \in {"perm", "ffn"} THEN <<>>
              ELSE [r \in Ranks(cfg) |-> [t \in FoldDomain(cfg) |-> 0]]
    /\ biasUse = IF cfg.prog = "ring" THEN [r \in Ranks(cfg) |-> {}] ELSE <<>>
    /\ output = FALSE
    /\ res = <<>>
    /\ dq = IF cfg.prog = "ring"
            THEN [r \in Ranks(cfg) |-> [b \in Ranks(cfg) |-> ZeroGrad]] ELSE <<>>
    /\ dk = IF cfg.prog = "ring"
            THEN [r \in Ranks(cfg) |-> [t \in Ranks(cfg) \X Ranks(cfg) |-> ZeroGrad]]
            ELSE <<>>
    /\ bias \in CASE cfg.prog = "attn" -> BiasShapes(cfg)
                  [] cfg.prog = "ring" ->
                         {GivenBias(<<1, 1, cfg.bias_q, cfg.axis_size * cfg.kv_len>>)}
                  [] OTHER -> {NoBias}
    /\ err = "none"
    /\ hopLog = IF cfg.prog = "ring" THEN [r \in Ranks(cfg) |-> <<>>] ELSE <<>>
    /\ bwdTile = IF cfg.prog = "ring"
                 THEN [r \in Ranks(cfg) |-> [t \in FoldDomain(cfg) |-> NoVisit]] ELSE <<>>
    /\ first = IF cfg.prog \in {"attn", "ring"}
               THEN [r \in Ranks(cfg) |-> [i \in 0 .. cfg.q_len - 1 |-> NoFirst]] ELSE <<>>
    /\ ffnIn = <<>>
    /\ ffnOut = <<>>

\* ------------------------------------------------------- token permutation
\* train_step: permute_tokens(attention_type, batch[...], mesh_dim_sizes[-1])
Permute ==
    /\ pc = "perm"
    /\ IF cfg.attention_type = "striped" /\ ~RearrangeOK(Len(tokens), cfg.axis_size)
       THEN /\ pc' = "error"
            /\ UNCHANGED permuted
       ELSE /\ pc' = "permuted"
            /\ permuted' = permute_tokens(cfg.attention_type, tokens, cfg.axis_size)
    /\ UNCHANGED <<cfg, tokens, restored, idx, computed, heldKV, acc, fold, biasUse,
                   output, res, dq, dk, qdone, bias, err, hopLog, bwdTile, first,
                   ffnIn, ffnOut>>

Unpermute ==
    /\ pc = "permuted"
    /\ pc' = "unpermuted"
    /\ restored' = unpermute_outputs(cfg.attention_type, permuted, cfg.axis_size)
    /\ UNCHANGED <<cfg, tokens, permuted, idx, computed, heldKV, acc, fold, biasUse,
                   output, res, dq, dk, qdone, bias, err, hopLog, bwdTile, first,
                   ffnIn, ffnOut>>

\* ---------------------------------------------------------- blockwise_attn
\* query/key/value.reshape at entry; the shapes are static, so a chunk size
\* that does not divide its length fails here
AttnEntry ==
    /\ pc = "attn"
    /\ err' = EntryError(cfg, bias)
    /\ pc' = IF err' = "none" THEN "attn_scan" ELSE "error"
    /\ UNCHANGED <<cfg, tokens, permuted, restored, idx, computed, heldKV, acc, fold,
                   biasUse, output, res, dq, dk, qdone, bias, hopLog, bwdTile, first,
                   ffnIn, ffnOut>>

\* one iteration of the outer lax.scan (scan_attention): query tile qdone is
\* run against every key tile from a fresh carry; the tile indices handed to
\* _chunk_bias_fn are the local ones and block_size is None
AttnScanAttention ==
    /\ pc = "attn_scan"
    /\ qdone < cfg.q_len \div cfg.query_chunk_size
    /\ acc' = [acc EXCEPT ![0] =
                 [ij \in DOMAIN @ |->
                    @[ij] + IF /\ ij[1] \div cfg.query_chunk_size = qdone
                               /\ ~attn_skip_upper_half(cfg.causal, qdone,
                                       ij[2] \div cfg.key_chunk_size)
                               /\ ~causal_mask_value(cfg, qdone,
                                       ij[2] \div cfg.key_chunk_size,
                                       ij[1] % cfg.query_chunk_size,
                                       ij[2] % cfg.key_chunk_size)
                            THEN 1 ELSE 0]]
    /\ fold' = [fold EXCEPT ![0] =
                 [t \in DOMAIN @ |->
                    @[t] + IF t[1] = qdone /\ ~attn_skip_upper_half(cfg.causal, qdone, t[3])
                           THEN 1 ELSE 0]]
    /\ first' = [first EXCEPT ![0] = attn_first_fold(cfg, @, qdone)]
    /\ qdone' = qdone + 1
    /\ UNCHANGED <<cfg, pc, tokens, permuted, restored, idx, computed, heldKV, biasUse,
                   output, res, dq, dk, bias, err, hopLog, bwdTile, ffnIn, ffnOut>>

\* output = rearrange(output, 'n b c h d -> b (n c) h d'); return output
AttnReturn ==
    /\ pc = "attn_scan"
    /\ qdone = cfg.q_len \div cfg.query_chunk_size
    /\ pc' = "attn_done"
    /\ output' = TRUE
    /\ UNCHANGED <<cfg, tokens, permuted, restored, idx, computed, heldKV, acc, fold,
                   biasUse, res, dq, dk, qdone, bias, err, hopLog, bwdTile, first,
                   ffnIn, ffnOut>>

\* ------------------------------------------------------ _ring_attention_fwd
\* The hop body is staged once before any hop runs: the reshapes of
\* _blockwise_attention_fwd and the asserts of _chunk_attention_bias act on
\* static shapes and Python ints, so they fail here or never.
RingFwdTrace ==
    /\ pc = "ring"
    /\ err' = EntryError(cfg, RingBiasSlice(cfg, bias))
    /\ pc' = IF err' = "none" THEN "fwd" ELSE "error"
    /\ UNCHANGED <<cfg, tokens, permuted, restored, idx, computed, heldKV, acc, fold,
                   biasUse, output, res, dq, dk, qdone, bias, hopLog, bwdTile, first,
                   ffnIn, ffnOut>>

\* scan_kv_block up to the ppermute, on rank r at hop idx
RingFwdCompute(r) ==
    /\ pc = "fwd"
    /\ idx < cfg.axis_size
    /\ r \notin computed
    /\ LET new == _blockwise_attention_fwd(cfg, acc[r], fold[r],
                      q_chunk_idx_start(cfg, r), k_chunk_idx_start(cfg, r, idx), heldKV[r])
       IN  /\ acc' = [acc EXCEPT ![r] = new.a]
           /\ fold' = [fold EXCEPT ![r] = new.f]
    /\ first' = [first EXCEPT ![r] =
                    first_fold(cfg, @, idx, q_chunk_idx_start(cfg, r),
                               k_chunk_idx_start(cfg, r, idx), heldKV[r])]
    /\ hopLog' = [hopLog EXCEPT ![r] = LogHop(@, "fwd", idx, heldKV[r])]
    /\ biasUse' = [biasUse EXCEPT ![r] = @ \cup RingBiasReads(cfg, "fwd", r, idx)]
    /\ computed' = computed \cup {r}
    /\ UNCHANGED <<cfg, pc, tokens, permuted, restored, idx, heldKV, output, res, dq, dk,
                   qdone, bias, err, bwdTile, ffnIn, ffnOut>>

\* the ppermute of k and v: a collective, it completes once every rank has
\* reached it
RingFwdRotate ==
    /\ pc = "fwd"
    /\ idx < cfg.axis_size
    /\ AllReached(computed, cfg.axis_size)
    /\ heldKV' = ppermute(heldKV, cfg.axis_size)
    /\ idx' = idx + 1
    /\ computed' = {}
    /\ UNCHANGED <<cfg, pc, tokens, permuted, restored, acc, fold, biasUse, output, res,
                   dq, dk, qdone, bias, err, hopLog, bwdTile, first, ffnIn, ffnOut>>

\* output = numerator / denominator; the residuals keep the k, v arguments of
\* the call, not the scan's final carry
RingFwdReturn ==
    /\ pc = "fwd"
    /\ idx = cfg.axis_size
    /\ output' = TRUE
    /\ res' = [r \in Ranks(cfg) |-> r]
    /\ pc' = "bwd"
    /\ idx' = 0
    /\ heldKV' = res'
    /\ UNCHANGED <<cfg, tokens, permuted, restored, computed, acc, fold, biasUse, dq, dk,
                   qdone, bias, err, hopLog, bwdTile, first, ffnIn, ffnOut>>

\* ------------------------------------------------------ _ring_attention_bwd
RingBwdCompute(r) ==
    /\ pc = "bwd"
    /\ idx < cfg.axis_size
    /\ r \notin computed
    /\ LET new == _blockwise_attention_bwd(cfg, dq[r], dk[r], r,
                      q_chunk_idx_start(cfg, r), k_chunk_idx_start(cfg, r, idx), heldKV[r])
       IN  /\ dq' = [dq EXCEPT ![r] = new.dq]
           /\ dk' = [dk EXCEPT ![r] = new.dk]
    /\ bwdTile' = [bwdTile EXCEPT ![r] =
                      bwd_tiles(cfg, @, q_chunk_idx_start(cfg, r),
                                k_chunk_idx_start(cfg, r, idx), heldKV[r])]
    /\ hopLog' = [hopLog EXCEPT ![r] = LogHop(@, "bwd", idx, heldKV[r])]
    /\ biasUse' = [biasUse EXCEPT ![r] = @ \cup RingBiasReads(cfg, "bwd", r, idx)]
    /\ computed' = computed \cup {r}
    /\ UNCHANGED <<cfg, pc, tokens, permuted, restored, idx, heldKV, acc, fold, output,
                   res, qdone, bias, err, first, ffnIn, ffnOut>>

\* a backward hop that rotates k and v but leaves dk and dv in place
RotateGrads_kv_only(k, g, axis_size) ==
    [k |-> ppermute(k, axis_size), dk |-> g]

\* the ppermute of k, v, dk and dv
RotateGrads(k, g, axis_size) ==
    [k |-> ppermute(k, axis_size), dk |-> ppermute(g, axis_size)]

RingBwdRotate ==
    /\ pc = "bwd"
    /\ idx < cfg.axis_size
    /\ AllReached(computed, cfg.axis_size)
    /\ heldKV' = RotateGrads(heldKV, dk, cfg.axis_size).k
    /\ dk' = RotateGrads(heldKV, dk, cfg.axis_size).dk
    /\ idx' = idx + 1
    /\ computed' = {}
    /\ UNCHANGED <<cfg, pc, tokens, permuted, restored, acc, fold, biasUse, output, res,
                   dq, qdone, bias, err, hopLog, bwdTile, first, ffnIn, ffnOut>>

RingBwdReturn ==
    /\ pc = "bwd"
    /\ idx = cfg.axis_size
    /\ pc' = "done"
    /\ UNCHANGED <<cfg, tokens, permuted, restored, idx, computed, heldKV, acc, fold,
                   biasUse, output, res, dq, dk, qdone, bias, err, hopLog, bwdTile,
                   first, ffnIn, ffnOut>>

\* ----------------------------------------------------------- blockwise_ffn
\* inputs = rearrange(inputs, 'b (c n) d -> b c n d', c=chunk_size); einops
\* rejects a sequence length chunk_size does not divide
FfnEntry ==
    /\ pc = "ffn"
    /\ err' = IF RearrangeOK(cfg.q_len, cfg.query_chunk_size) THEN "none" ELSE "rearrange"
    /\ pc' = IF err' = "none" THEN "ffn_scan" ELSE "error"
    /\ UNCHANGED <<cfg, tokens, permuted, restored, idx, computed, heldKV, acc, fold,
                   biasUse, output, res, dq, dk, qdone, bias, hopLog, bwdTile, first,
                   ffnIn, ffnOut>>

\* one step of nn.scan(scan_ffn, ..)(remat_ffn, None, inputs): step qdone
FfnScan ==
    /\ pc = "ffn_scan"
    /\ qdone < cfg.q_len \div cfg.query_chunk_size
    /\ ffnIn' = Append(ffnIn,
                    scan_ffn("None",
                        ffn_scan_input(ffn_rearrange(cfg.q_len, cfg.query_chunk_size),
                                       cfg.query_chunk_size, qdone)))
    /\ qdone' = qdone + 1
    /\ UNCHANGED <<cfg, pc, tokens, permuted, restored, idx, computed, heldKV, acc, fold,
                   biasUse, output, res, dq, dk, bias, err, hopLog, bwdTile, first,
                   ffnOut>>

\* output = rearrange(output, 'b c n d -> b (c n) d'); return output
FfnReturn ==
    /\ pc = "ffn_scan"
    /\ qdone = cfg.q_len \div cfg.query_chunk_size
    /\ ffnOut' = ffn_output(ffnIn, cfg.q_len, cfg.query_chunk_size)
    /\ output' = TRUE
    /\ pc' = "ffn_done"
    /\ UNCHANGED <<cfg, tokens, permuted, restored, idx, computed, heldKV, acc, fold,
                   biasUse, res, dq, dk, qdone, bias, err, hopLog, bwdTile, first,
                   ffnIn>>

Next ==
    \/ Permute
    \/ Unpermute
    \/ AttnEntry
    \/ AttnScanAttention
    \/ AttnReturn
    \/ RingFwdTrace
    \/ \E r \in Ranks(cfg) : RingFwdCompute(r)
    \/ RingFwdRotate
    \/ RingFwdReturn
    \/ \E r \in Ranks(cfg) : RingBwdCompute(r)
    \/ RingBwdRotate
    \/ RingBwdReturn
    \/ FfnEntry
    \/ FfnScan
    \/ FfnReturn

Spec == Init /\ [][Next]_vars

\* ================================================================== claims
NumQ == cfg.q_len \div cfg.query_chunk_size
NumKV == cfg.kv_len \div cfg.key_chunk_size
SeqLen == cfg.axis_size * cfg.q_len

\* the forward ring has run its axis_size hops and returned
RingFwdDone == cfg.prog = "ring" /\ pc \in {"bwd", "done"}

\* dense single-device attention: the keys query position i attends to
DenseAttends(causal, i, j) == causal => j <= i

\* C1: ring decomposition.  With no causal layout, once the axis_size hops are
\* done every rank has folded every key tile of every block into every query
\* tile exactly once, and the (query, key) pairs that contribute over all
\* ranks are those of dense non-causal attention on the axis_size*q_len
\* sequence, each exactly once.
C1_RingDecomposition ==
    (RingFwdDone /\ cfg.causal_layout = "none") =>
        \A r \in Ranks(cfg) :
            /\ \A t \in DOMAIN fold[r] : fold[r][t] = 1
            /\ \A ij \in DOMAIN acc[r] :
                   /\ DenseAttends(FALSE, r * cfg.q_len + ij[1], ij[2])
                   /\ acc[r][ij] = 1

C1_Witness ==
    /\ RingFwdDone /\ cfg.causal_layout = "none"
    /\ cfg.axis_size = 3 /\ NumKV = 2 /\ NumQ = 4
    /\ acc[2][<<3, 0>>] = 1 /\ fold[0][<<3, 2, 1>>] = 1

\* C2: causal masking in the contiguous ring layout.  At every point of the
\* forward ring a key at global position j has been folded unmasked into the
\* query at global position i only if j <= i, never twice; once the hops are
\* done every pair with j <= i has been folded unmasked exactly once.
C2_CausalContiguous ==
    (cfg.prog = "ring" /\ cfg.causal_layout = "normal") =>
        \A r \in Ranks(cfg) : \A ij \in DOMAIN acc[r] :
            LET i == r * cfg.q_len + ij[1]
                j == ij[2]
            IN  /\ acc[r][ij] <= 1
                /\ acc[r][ij] = 1 => j <= i
                /\ RingFwdDone => (acc[r][ij] = 1 <=> DenseAttends(TRUE, i, j))

C2_Witness ==
    /\ RingFwdDone /\ cfg.causal_layout = "normal"
    /\ cfg.axis_size = 2 /\ cfg.q_len = 4
    /\ cfg.query_chunk_size = 2 /\ cfg.key_chunk_size = 4
    /\ acc[1][<<0, 4>>] = 1 /\ acc[1][<<0, 5>>] = 0 /\ acc[1][<<3, 0>>] = 1
    /\ fold[0][<<0, 1, 0>>] = 0

\* C4: striped/contiguous equivalence.  The sequence is reordered by
\* permute_tokens (permuted index p holds original position
\* StripedSource(p)) and sharded, block_size being the local length.  Once the
\* hops of the striped ring are done, the key at original position j has been
\* folded unmasked into the query at original position i exactly once when
\* j <= i and never when j > i.
C4_StripedEquivalence ==
    (RingFwdDone /\ cfg.causal_layout = "striped" /\ cfg.block_size = cfg.q_len) =>
        \A p \in 0 .. SeqLen - 1 : \A q \in 0 .. SeqLen - 1 :
            LET i == StripedSource(p, SeqLen, cfg.axis_size)
                j == StripedSource(q, SeqLen, cfg.axis_size)
                n == acc[p \div cfg.q_len][<<p % cfg.q_len, q>>]
            IN  /\ n <= 1
                /\ n = 1 <=> j <= i

C4_Witness ==
    /\ RingFwdDone /\ cfg.causal_layout = "striped" /\ cfg.block_size = cfg.q_len
    /\ cfg.axis_size = 3 /\ cfg.q_len = 4
    /\ cfg.query_chunk_size = 2 /\ cfg.key_chunk_size = 1
    /\ acc[0][<<1, 9>>] = 0 /\ acc[2][<<1, 5>>] = 1 /\ acc[0][<<1, 4>>] = 1

\* C5: permutation inverse law.  unpermute_outputs("striped", .) applied to
\* permute_tokens("striped", x, P) gives back x, for every P dividing the
\* length of x.
C5_PermutationInverse ==
    (cfg.prog = "perm" /\ cfg.attention_type = "striped" /\ pc = "unpermuted") =>
        restored = tokens

C5_Witness ==
    /\ cfg.prog = "perm" /\ cfg.attention_type = "striped" /\ pc = "unpermuted"
    /\ cfg.axis_size = 2 /\ tokens = <<0, 1, 1, 1, 0, 0>>
    /\ permuted = <<0, 1, 0, 1, 1, 0>>
    /\ restored = tokens

\* C6: permute_tokens("striped", x, P) puts the token of original position i
\* at permuted index (i mod P)*(N/P) + i div P, i.e. at local index i div P of
\* shard i mod P; for any other layout permute_tokens and unpermute_outputs
\* return their input.
C6_StripedPlacement ==
    (cfg.prog = "perm" /\ pc \in {"permuted", "unpermuted"}) =>
        IF cfg.attention_type = "striped"
        THEN \A i \in 0 .. Len(tokens) - 1 :
                 permuted[(i % cfg.axis_size) * (Len(tokens) \div cfg.axis_size)
                          + (i \div cfg.axis_size) + 1] = tokens[i + 1]
        ELSE /\ permuted = tokens
             /\ pc = "unpermuted" => restored = permuted

C6_Witness ==
    /\ cfg.prog = "perm" /\ cfg.attention_type = "striped" /\ pc = "permuted"
    /\ cfg.axis_size = 3 /\ tokens = <<0, 0, 0, 0, 1, 0>>
    /\ permuted = <<0, 0, 0, 1, 0, 0>>

\* query row i of rank r has at least one folded key tile and at least one
\* key folded in without the mask value
RowHasKey(r, i) ==
    /\ \E t \in DOMAIN fold[r] : t[1] = i \div cfg.query_chunk_size /\ fold[r][t] >= 1
    /\ \E ij \in DOMAIN acc[r] : ij[1] = i /\ acc[r][ij] >= 1

\* C7: denominator positivity.  When blockwise_attn with causal=true has
\* returned, and when the forward ring under the normal or the striped layout
\* (block_size the local length) has done its hops, every query row has a
\* non-skipped key tile and an unmasked folded key, so its denominator is > 0.
C7_DenominatorPositive ==
    ( \/ cfg.prog = "attn" /\ cfg.causal /\ pc = "attn_done"
      \/ RingFwdDone /\ cfg.causal_layout = "normal"
      \/ RingFwdDone /\ cfg.causal_layout = "striped" /\ cfg.block_size = cfg.q_len ) =>
        \A r \in Ranks(cfg) : \A i \in 0 .. cfg.q_len - 1 : RowHasKey(r, i)

C7_Witness ==
    /\ RingFwdDone /\ cfg.causal_layout = "striped" /\ cfg.block_size = cfg.q_len
    /\ cfg.axis_size = 2 /\ cfg.q_len = 4 /\ cfg.query_chunk_size = 1
    /\ cfg.key_chunk_size = 2
    /\ fold[0][<<0, 0, 1>>] = 0 /\ fold[0][<<0, 1, 0>>] = 1
    /\ \A j \in 1 .. 7 : acc[0][<<0, j>>] = 0
    /\ RowHasKey(0, 0)

\* C3: single-device blockwise_attn with causal=true equals dense causal
\* attention for every chunk configuration that divides the lengths: when it
\* has returned, key j has been folded unmasked into query i exactly once if
\* j <= i and never otherwise (stated here for self-attention, q_len = kv_len).
C3_BlockwiseCausalDense ==
    (cfg.prog = "attn" /\ cfg.causal /\ pc = "attn_done" /\ cfg.q_len = cfg.kv_len) =>
        \A ij \in DOMAIN acc[0] :
            /\ acc[0][ij] <= 1
            /\ acc[0][ij] = 1 <=> DenseAttends(TRUE, ij[1], ij[2])

\* C8: bias addressing under rotation.  Every bias read of the forward and the
\* backward ring takes, for key tile kt of the block kb in hand, the columns
\* of the caller's bias from kb*kv_len + kt*key_chunk_size, and for query tile
\* qt the rows of that tile (row 0 of a bias with one broadcast row).
C8_BiasAddressing ==
    (cfg.prog = "ring" /\ cfg.block_size = cfg.q_len) =>
        \A r \in Ranks(cfg) : \A u \in biasUse[r] :
            /\ u.ks = u.kb * cfg.kv_len + u.kt * cfg.key_chunk_size
            /\ u.qs = IF cfg.bias_q = 1 THEN 0 ELSE u.qt * cfg.query_chunk_size

\* C9: ring backward gradient return.  At hop idx of the backward ring rank r
\* holds the key/value shard of block (r - idx) mod axis_size and a dk/dv shard
\* that so far took contributions for that block only, at most one per query
\* rank; dq of rank r took exactly the blocks rank r has computed on (it stays
\* on its rank); after axis_size hops the dk/dv shard on rank b has taken one
\* contribution of NumQ*NumKV tiles from every query rank, all for block b.
C9_GradientReturn ==
    (cfg.prog = "ring" /\ pc \in {"bwd", "done"}) =>
        \A r \in Ranks(cfg) :
            /\ heldKV[r] = (r - idx) % cfg.axis_size
            /\ \A t \in DOMAIN dk[r] :
                   /\ dk[r][t].n <= 1
                   /\ dk[r][t].n = 1 => t[1] = heldKV[r]
                   /\ idx = cfg.axis_size =>
                          (dk[r][t].n = 1 <=> t[1] = r)
                   /\ dk[r][t].computed + dk[r][t].zero = dk[r][t].n * NumQ * NumKV
            /\ \A b \in Ranks(cfg) :
                   dq[r][b].n =
                       IF \E h \in 0 .. cfg.axis_size - 1 :
                              /\ b = (r - h) % cfg.axis_size
                              /\ h < idx \/ (h = idx /\ r \in computed)
                       THEN 1 ELSE 0

C9_Witness ==
    /\ cfg.prog = "ring" /\ pc = "done" /\ cfg.axis_size = 3
    /\ cfg.causal_layout = "normal" /\ NumQ = 2 /\ NumKV = 2
    /\ dk[1][<<1, 0>>] = [n |-> 1, computed |-> 0, zero |-> 4]
    /\ dk[1][<<1, 2>>] = [n |-> 1, computed |-> 4, zero |-> 0]
    /\ dk[1][<<1, 1>>] = [n |-> 1, computed |-> 3, zero |-> 1]
    /\ dq[2][0].n = 1

\* a chunk configuration the ConfigurationError is about
BadChunkConfig(c) ==
    \/ c.q_len % c.query_chunk_size # 0
    \/ c.kv_len % c.key_chunk_size # 0
    \/ /\ c.causal_layout = "striped"
       /\ \/ c.block_size % c.query_chunk_size # 0
          \/ c.block_size % c.key_chunk_size # 0

\* C10: ConfigurationError.  A call of blockwise_attn or of the ring whose
\* chunk size does not divide its local length, or whose striped layout has a
\* block_size a chunk size does not divide, goes from entry to the error
\* state and nowhere else: no tile is folded, no bias is read, no gradient is
\* added and no output or residual is returned.
C10_ConfigurationError ==
    (cfg.prog \in {"attn", "ring"} /\ BadChunkConfig(cfg)) =>
        /\ pc \in {cfg.prog, "error"}
        /\ output = FALSE /\ res = <<>> /\ qdone = 0 /\ idx = 0 /\ computed = {}
        /\ \A r \in Ranks(cfg) :
               /\ \A ij \in DOMAIN acc[r] : acc[r][ij] = 0
               /\ \A t \in DOMAIN fold[r] : fold[r][t] = 0
               /\ cfg.prog = "ring" => biasUse[r] = {}

C10_Witness ==
    /\ cfg.prog = "ring" /\ pc = "error" /\ cfg.causal_layout = "striped"
    /\ cfg.q_len = 4 /\ cfg.query_chunk_size = 2 /\ cfg.key_chunk_size = 4
    /\ cfg.block_size = 2 /\ output = FALSE

\* a bias that is not of the form (batch|1, heads|1, q_len|1, kv_len|1); a
\* bias with fewer than four dims is one
NotBroadcastable(b, target) ==
    /\ b.given
    /\ ~ /\ Len(b.shape) = Len(target)
         /\ \A k \in 1 .. Len(target) : b.shape[k] \in {1, target[k]}

\* C11: ShapeError.  A call of blockwise_attn whose chunk sizes divide the
\* lengths and whose bias is not broadcastable to (batch, heads, q_len,
\* kv_len), a bias with fewer than four dims included, is rejected by the
\* bias shape check at call entry.
C11_ShapeError ==
    ( /\ cfg.prog = "attn" /\ pc # "attn"
      /\ ReshapeOK(cfg.q_len, cfg.query_chunk_size)
      /\ ReshapeOK(cfg.kv_len, cfg.key_chunk_size)
      /\ NotBroadcastable(bias, BroadcastShape(cfg)) ) =>
        pc = "error" /\ err = "bias_shape"

\* what does hold of such a call: it ends in the error state, by the shape
\* check when the bias has four dims and else by the dynamic_slice of
\* _chunk_attention_bias, and no query tile is processed
C11_RejectedBeforeTiles ==
    ( /\ cfg.prog = "attn" /\ pc # "attn"
      /\ ReshapeOK(cfg.q_len, cfg.query_chunk_size)
      /\ ReshapeOK(cfg.kv_len, cfg.key_chunk_size)
      /\ NotBroadcastable(bias, BroadcastShape(cfg)) ) =>
        /\ pc = "error" /\ qdone = 0 /\ output = FALSE
        /\ err \in {"bias_shape", "bias_slice"}
        /\ Len(bias.shape) = Len(BroadcastShape(cfg)) => err = "bias_shape"

\* the (query tile, key tile) pair of blockwise_attn that holds entry (i, i)
\* was folded
AttnDiagonalFolded(i) ==
    fold[0][<<i \div cfg.query_chunk_size, 0, i \div cfg.key_chunk_size>>] = 1

\* the pair that holds the diagonal entry of local row i of rank r (the key is
\* local position i of the rank's own block) was folded
RingDiagonalFolded(r, i) ==
    fold[r][<<i \div cfg.query_chunk_size, r, i \div cfg.key_chunk_size>>] = 1

\* C12: diagonal tile never skipped.  When causal blockwise_attn (q_len =
\* kv_len) has returned, and when the forward ring under the normal or the
\* striped layout (block_size the local length) has done its hops, the tile
\* pair that holds the diagonal entry (i, i) of every query position i has
\* been folded.
C12_DiagonalNeverSkipped ==
    /\ (cfg.prog = "attn" /\ cfg.causal /\ pc = "attn_done" /\ cfg.q_len = cfg.kv_len) =>
           \A i \in 0 .. cfg.q_len - 1 : AttnDiagonalFolded(i)
    /\ (RingFwdDone /\ cfg.causal /\ cfg.block_size = cfg.q_len) =>
           \A r \in Ranks(cfg) : \A i \in 0 .. cfg.q_len - 1 : RingDiagonalFolded(r, i)

\* the part of C12 that holds: the ring never skips a diagonal tile pair
C12_RingDiagonal ==
    (RingFwdDone /\ cfg.causal /\ cfg.block_size = cfg.q_len) =>
        \A r \in Ranks(cfg) : \A i \in 0 .. cfg.q_len - 1 : RingDiagonalFolded(r, i)

\* C13: rotation schedule of the forward ring.  At hop idx the shard rank r
\* holds, after idx rotations i -> (i+1) mod axis_size, is the block of rank
\* (r - idx) mod axis_size; every hop a rank has computed was computed on the
\* block k_block_idx gives for that hop, and the bias slices it took are those
\* of the blocks it held.
C13_RotationSchedule ==
    (cfg.prog = "ring" /\ pc = "fwd") =>
        \A r \in Ranks(cfg) :
            /\ heldKV[r] = (r - idx) % cfg.axis_size
            /\ idx < cfg.axis_size => heldKV[r] = k_block_idx(r, idx, cfg.axis_size)
            /\ \A n \in 1 .. Len(hopLog[r]) :
                   hopLog[r][n].blk = k_block_idx(r, hopLog[r][n].hop, cfg.axis_size)
            /\ \A u \in biasUse[r] :
                   \E n \in 1 .. Len(hopLog[r]) : hopLog[r][n].blk = u.kb

C13_Witness ==
    /\ cfg.prog = "ring" /\ pc = "fwd" /\ cfg.axis_size = 3 /\ idx = 2
    /\ heldKV[0] = 1 /\ heldKV[1] = 2 /\ heldKV[2] = 0
    /\ 0 \in computed
    /\ hopLog[0] = << [pass |-> "fwd", hop |-> 0, blk |-> 0],
                      [pass |-> "fwd", hop |-> 1, blk |-> 2],
                      [pass |-> "fwd", hop |-> 2, blk |-> 1] >>
    /\ \E u \in biasUse[0] : u.kb = 1

IsFwd(e) == e.pass = "fwd"
IsBwd(e) == e.pass = "bwd"

\* the hops rank r has computed in one pass are hops 0, 1, .. in this order,
\* n of them, and hop h+1 was computed on the shard the rank's ring
\* predecessor held at hop h
HopsInOrder(r, log, prevLog, n) ==
    /\ Len(log) = n
    /\ \A h \in 1 .. Len(log) : log[h].hop = h - 1
    /\ \A h \in 2 .. Len(log) :
           /\ h - 1 <= Len(prevLog)
           /\ log[h].blk = prevLog[h - 1].blk

C15_BackwardSkip ==
    (cfg.prog = "ring" /\ pc \in {"bwd", "done"}) =>
        \A r \in Ranks(cfg) : \A t \in DOMAIN bwdTile[r] :
            LET b == bwdTile[r][t]
            IN  /\ b.visits <= 1
                /\ pc = "done" => b.visits = 1
                /\ fold[r][t] \in {0, 1}
                /\ b.visits = 1 =>
                       /\ b.computed = fold[r][t]
                       /\ b.dq_add = fold[r][t]
                       /\ b.zero = 1 - fold[r][t]
                       /\ b.shapes = {<<Batch, cfg.key_chunk_size, NumHeads>>}
                /\ b.visits = 0 => b = NoVisit

C15_Witness ==
    /\ cfg.prog = "ring" /\ pc = "done" /\ cfg.axis_size = 2
    /\ cfg.causal_layout = "striped" /\ cfg.block_size = cfg.q_len
    /\ cfg.q_len = 4 /\ cfg.query_chunk_size = 2 /\ cfg.key_chunk_size = 2
    /\ fold[0][<<0, 1, 1>>] = 0
    /\ bwdTile[0][<<0, 1, 1>>] =
           [visits |-> 1, dq_add |-> 0, computed |-> 0, zero |-> 1,
            shapes |-> {<<Batch, 2, NumHeads>>}]
    /\ bwdTile[0][<<0, 1, 0>>].computed = 1
    /\ bwdTile[0][<<0, 1, 0>>].dq_add = 1

\* C16: striped load balance.  Under the striped layout (the local length a
\* multiple of block_size), once the forward ring has done its hops, whether
\* the pair (local query tile qt, local key tile kt) was skipped is the same
\* on every rank and for every block, i.e. at every hop; so every rank folds
\* the same number of tiles at every hop.
C16_StripedLoadBalance ==
    (RingFwdDone /\ cfg.causal_layout = "striped" /\ cfg.q_len % cfg.block_size = 0) =>
        \A r1 \in Ranks(cfg) : \A r2 \in Ranks(cfg) :
            \A t1 \in DOMAIN fold[r1] : \A t2 \in DOMAIN fold[r2] :
                (t1[1] = t2[1] /\ t1[3] = t2[3]) => fold[r1][t1] = fold[r2][t2]

C16_Witness ==
    /\ RingFwdDone /\ cfg.causal_layout = "striped" /\ cfg.block_size = cfg.q_len
    /\ cfg.axis_size = 3 /\ cfg.q_len = 4
    /\ cfg.query_chunk_size = 2 /\ cfg.key_chunk_size = 2
    /\ \A r \in Ranks(cfg) : \A b \in Ranks(cfg) :
           /\ fold[r][<<0, b, 1>>] = 0
           /\ fold[r][<<0, b, 0>>] = 1
           /\ fold[r][<<1, b, 1>>] = 1

\* C17: BlockwiseFFN chunking.  When blockwise_ffn has returned for an input
\* of length N and a chunk_size dividing N, every scan step was given a
\* contiguous slice of exactly chunk_size sequence positions, with the carry
\* None, and place i of the output holds the result for input position i.
C17_FfnChunking ==
    (cfg.prog = "ffn" /\ pc = "ffn_done") =>
        /\ \A n \in 1 .. Len(ffnIn) :
               /\ Len(ffnIn[n].outputs) = cfg.query_chunk_size
               /\ \A k \in 1 .. Len(ffnIn[n].outputs) - 1 :
                      ffnIn[n].outputs[k + 1] = ffnIn[n].outputs[k] + 1
               /\ ffnIn[n].carry = "None"
        /\ ffnOut = [i \in 1 .. cfg.q_len |-> i - 1]

\* C17 as amended: blockwise_ffn runs N/chunk_size steps, each on exactly
\* chunk_size positions that lie N/chunk_size apart (step n takes n, n + N/chunk_size,
\* ..), every position in exactly one step, the carry None, and place i of
\* the output holds the result for input position i
C17_FfnStrided ==
    (cfg.prog = "ffn" /\ pc = "ffn_done") =>
        /\ Len(ffnIn) = cfg.q_len \div cfg.query_chunk_size
        /\ \A n \in 1 .. Len(ffnIn) :
               /\ Len(ffnIn[n].outputs) = cfg.query_chunk_size
               /\ \A k \in 1 .. Len(ffnIn[n].outputs) :
                      ffnIn[n].outputs[k] = (n - 1) + (k - 1) * Len(ffnIn)
               /\ ffnIn[n].carry = "None"
        /\ ffnOut = [i \in 1 .. cfg.q_len |-> i - 1]

C17_Witness ==
    /\ cfg.prog = "ffn" /\ pc = "ffn_done"
    /\ cfg.q_len = 6 /\ cfg.query_chunk_size = 2
    /\ ffnIn = << [carry |-> "None", outputs |-> <<0, 3>>],
                  [carry |-> "None", outputs |-> <<1, 4>>],
                  [carry |-> "None", outputs |-> <<2, 5>>] >>
    /\ ffnOut = <<0, 1, 2, 3, 4, 5>>

\* C18: shard conservation.  In every state of the forward and the backward
\* ring the blocks in the ranks' hands are the blocks 0 .. axis_size-1, one
\* each; after axis_size rotations of a pass every rank holds its own block
\* again; and the residuals handed to the backward pass, once returned, hold
\* for every rank its own block.
C18_ShardConservation ==
    cfg.prog = "ring" =>
        /\ DOMAIN heldKV = Ranks(cfg)
        /\ { heldKV[r] : r \in Ranks(cfg) } = Ranks(cfg)
        /\ idx = cfg.axis_size => \A r \in Ranks(cfg) : heldKV[r] = r
        /\ IF pc \in {"bwd", "done"}
           THEN DOMAIN res = Ranks(cfg) /\ \A r \in Ranks(cfg) : res[r] = r
           ELSE res = <<>>

C18_Witness ==
    /\ cfg.prog = "ring" /\ pc = "bwd" /\ cfg.axis_size = 3 /\ idx = 2
    /\ heldKV[0] = 1 /\ heldKV[1] = 2 /\ heldKV[2] = 0
    /\ res[0] = 0 /\ res[1] = 1 /\ res[2] = 2
    /\ computed = {1}

\* C19: the first folded tile is never fully masked.  In causal
\* blockwise_attn and in the ring under the normal and the striped layout
\* (block_size the local length), the first key tile folded into a query
\* row's carry is key tile 0 (at hop 0, of the rank's own block, in the ring)
\* and holds at least one key without the mask value for that row; when the
\* call has returned every row has such a first tile.
C19_FirstTileUnmasked ==
    ( \/ cfg.prog = "attn" /\ cfg.causal
      \/ cfg.prog = "ring" /\ cfg.causal_layout = "normal"
      \/ cfg.prog = "ring" /\ cfg.causal_layout = "striped"
                           /\ cfg.block_size = cfg.q_len ) =>
        \A r \in Ranks(cfg) : \A i \in 0 .. cfg.q_len - 1 :
            /\ first[r][i].set =>
                   /\ first[r][i].unmasked >= 1
                   /\ first[r][i].hop = 0 /\ first[r][i].kt = 0
                   /\ first[r][i].blk = r
            /\ (pc = "attn_done" \/ RingFwdDone) => first[r][i].set

C19_Witness ==
    /\ RingFwdDone /\ cfg.causal_layout = "striped" /\ cfg.block_size = cfg.q_len
    /\ cfg.axis_size = 2 /\ cfg.q_len = 4
    /\ cfg.query_chunk_size = 2 /\ cfg.key_chunk_size = 2
    /\ first[1][0] = [set |-> TRUE, hop |-> 0, blk |-> 1, kt |-> 0, unmasked |-> 1]
    /\ first[1][3] = [set |-> TRUE, hop |-> 0, blk |-> 1, kt |-> 0, unmasked |-> 2]

====
